---- MODULE Spec2Model ----
(***************************************************************************)
(* BLS signature aggregation of oxen-core (src/bls/bls_aggregator.cpp):    *)
(* the fan-out nodesRequest, the three responders (get_reward_balance,     *)
(* get_exit, get_liquidation) and the response handlers of rewards_request *)
(* and aggregateExitOrLiquidate.                                           *)
(*                                                                         *)
(* Byte strings are sequences of byte values.  A BLS partial signature is  *)
(* the pair (signer key, signed hash); an aggregate signature is the bag   *)
(* of the partial signatures added to it (curve addition is commutative    *)
(* and keeps multiplicity), and an aggregate public key is the bag of the  *)
(* keys added to it.  keccak is taken as injective on its byte input.      *)
(***************************************************************************)
EXTENDS Integers, Sequences, FiniteSets, Bags, TLC

\* ---------------------------------------------------------------- bounds

\* largest reachable-peer snapshot of the general specification
MaxPeers == 2

\* the requests a responding node serves in a run of the model
MaxRequests == 2

\* sizeof(T) of the fixed-size subjects (eth::address 20, bls_public_key 64), scaled
SizeofT == 1

\* const size_t MAX_CONNECTIONS = 900, scaled down with the peer counts of the model
MAX_CONNECTIONS == 2

\* ------------------------------------------------------------ byte values

\* a fixed-size value of sizeof(T) bytes, every byte b
Bytes(b) == [i \in 1..SizeofT |-> b]

\* the zero address (crypto::null, !address)
ZeroAddr == Bytes(0)

\* the subject of the call: the address of a rewards request, or the BLS key
\* of an exit / liquidation request
Subject1 == Bytes(171)

\* another address / key
Subject2 == Bytes(205)

Subjects == {ZeroAddr, Subject1, Subject2}

\* tools::view_guts(v): the raw bytes of a fixed-size value
view_guts(v) == v

\* tools::make_from_guts<T>(s): a T from exactly sizeof(T) raw bytes
make_from_guts(s) == s

\* '0'..'9', 'a'..'f', 'A'..'F' as character codes
IsHexDigit(c) == (c >= 48 /\ c <= 57) \/ (c >= 97 /\ c <= 102) \/ (c >= 65 /\ c <= 70)

HexDigitValue(c) == IF c <= 57 THEN c - 48 ELSE IF c >= 97 THEN c - 87 ELSE c - 55

\* oxenc::is_hex: every character a hex digit, even length
is_hex(s) == (Len(s) % 2 = 0) /\ \A i \in 1..Len(s) : IsHexDigit(s[i])

\* tools::make_from_hex_guts<T>(hex, false): the bytes a hex string encodes
make_from_hex_guts(hex) ==
    [i \in 1..(Len(hex) \div 2) |->
        16 * HexDigitValue(hex[2 * i - 1]) + HexDigitValue(hex[2 * i])]

\* s.starts_with("0x") || s.starts_with("0X")
StartsWith0x(s) == Len(s) >= 2 /\ s[1] = 48 /\ (s[2] = 120 \/ s[2] = 88)

\* tools::encode_integer_be<32>(amount): 32 bytes, most significant first
\* (amounts of the model are below 2^24, the upper bytes are zero)
encode_integer_be32(amount) ==
    [i \in 1..32 |->
        IF i = 32 THEN amount % 256
        ELSE IF i = 31 THEN (amount \div 256) % 256
        ELSE IF i = 30 THEN (amount \div 65536) % 256
        ELSE 0]

\* ------------------------------------------------------------ tags, hashes

Kinds == {"reward", "exit", "liquidate"}

Nettypes == {"mainnet", "testnet"}

\* BLSSigner::rewardTag / removalTag / liquidateTag of a claim kind
BaseTag(kind) ==
    CASE kind = "reward" -> "rewardTag"
      [] kind = "exit" -> "removalTag"
      [] kind = "liquidate" -> "liquidateTag"

\* BLSSigner::buildTagHash(baseTag, nettype): injective over (tag, network)
buildTagHash(baseTag, nettype) == <<baseTag, nettype>>

\* crypto::keccak over the concatenation of its arguments (injective)
keccak(parts) == <<"keccak", parts>>

\* a rewards hash that leaves the amount out
RewardHash_NoAmount(nettype, address, amount) ==
    keccak(<<buildTagHash("rewardTag", nettype), address>>)

\* the hash of a reward claim: keccak(tag, address, encode_integer_be<32>(amount))
RewardHash(nettype, address, amount) ==
    keccak(<<buildTagHash("rewardTag", nettype), address, encode_integer_be32(amount)>>)

\* an exit hash that takes the key before the tag
ExitHash_KeyFirst(hash_tag, nettype, bls_pubkey) ==
    keccak(<<bls_pubkey, buildTagHash(hash_tag, nettype)>>)

\* the hash of an exit / liquidation claim: keccak(tag, bls_pubkey)
ExitHash(hash_tag, nettype, bls_pubkey) ==
    keccak(<<buildTagHash(hash_tag, nettype), bls_pubkey>>)

\* ------------------------------------------------------------ BLS algebra

\* signer.signHash(h) of the node holding the secret key of bls_pubkey
signHash(bls_pubkey, h) == [signer |-> bls_pubkey, hash |-> h]

\* bls::Signature::clear(): the identity element
ClearedSignature == EmptyBag

\* bls::Signature::add
SigAdd(agg, sig) == agg (+) SetToBag({sig})

\* bls_sig.verifyHash(pubkey, hash) of a partial signature
verifyHash(sig, bls_pubkey, h) == sig.signer = bls_pubkey /\ sig.hash = h

\* the bag of the keys of a contributor list: aggPub.add for each of them
RECURSIVE AggPub(_)
AggPub(keys) ==
    IF keys = <<>> THEN EmptyBag ELSE SetToBag({Head(keys)}) (+) AggPub(Tail(keys))

\* verification of an aggregate signature against an aggregate public key:
\* the aggregate is the sum of one signature over h by each key, with multiplicity
VerifyAggregate(agg, pubkeys, h) ==
    /\ BagToSet(agg) = {signHash(k, h) : k \in BagToSet(pubkeys)}
    /\ \A k \in BagToSet(pubkeys) : CopiesIn(signHash(k, h), agg) = CopiesIn(k, pubkeys)

\* ------------------------------------------------ bt-encoded reply dicts

\* the keys of the reply dicts, in ascending (byte-wise) order
DictKeys == <<"address", "balance", "exit", "height", "liquidate", "signature">>

\* position of a key in the ascending order of the keys
KeyRank(k) == CHOOSE r \in 1..Len(DictKeys) : DictKeys[r] = k

\* std::string_view operator< on two keys
KeyLess(a, b) == KeyRank(a) < KeyRank(b)

\* oxenc::bt_dict_producer::append: the entry is written after those before it
DictAppend(d, k, v) == Append(d, [key |-> k, val |-> v])

\* oxenc::bt_dict_consumer::skip_until: forward only, skips the entries whose key
\* is smaller than the wanted one and stops at the first that is not
RECURSIVE skip_until(_, _)
skip_until(d, k) ==
    IF d = <<>> THEN [found |-> FALSE, d |-> d]
    ELSE IF KeyLess(Head(d).key, k) THEN skip_until(Tail(d), k)
    ELSE [found |-> Head(d).key = k, d |-> d]

\* oxenc::bt_dict_consumer::require<T>(key): the value of the key and the
\* consumer advanced past it, or a throw (ok = FALSE) when the key is not found
require(d, k) ==
    LET s == skip_until(d, k)
    IN  IF s.found THEN [ok |-> TRUE, val |-> Head(s.d).val, d |-> Tail(s.d)]
        ELSE [ok |-> FALSE, val |-> <<>>, d |-> s.d]

\* ------------------------------------------------------------ responders

\* the 400 reply of extract_1part_msg and of a zero balance
BadRequest == <<"400", "Bad request">>

\* the 403 reply of a key that is not removable / liquidatable
Forbidden == <<"403", "Forbidden">>

\* a test of the part count that only refuses an empty message
OnePart_NotEmpty(data) == Len(data) >= 1

\* m.data.size() != 1, negated
OnePart(data) == Len(data) = 1

\* extract_1part_msg: the single data part decoded to a T.  val is the caller's
\* default-initialised T (indeterminate bytes, `uninit`) unless a branch assigns it
extract_1part_msg(data, uninit) ==
    IF ~OnePart(data) THEN [ok |-> FALSE, val |-> uninit]
    ELSE IF Len(data[1]) = 2 + 2 * SizeofT /\ StartsWith0x(data[1]) /\ is_hex(data[1])
        THEN [ok |-> TRUE, val |-> make_from_hex_guts(SubSeq(data[1], 3, Len(data[1])))]
    ELSE IF Len(data[1]) = 2 * SizeofT /\ is_hex(data[1])
        THEN [ok |-> TRUE, val |-> make_from_hex_guts(data[1])]
    ELSE IF Len(data[1]) = SizeofT
        THEN [ok |-> TRUE, val |-> uninit]
    ELSE [ok |-> FALSE, val |-> uninit]

\* what a run of a responder did: the parts of the reply it sent and the hashes
\* it passed to signer.signHash
Served(reply, signed) == [reply |-> reply, signed |-> signed]

\* a responder that signs whatever the balance is
ZeroBalance_Never(amount) == FALSE

\* if (amount == 0) of get_reward_balance
ZeroBalance(amount) == amount = 0

\* BLSAggregator::get_reward_balance on the node `node`
get_reward_balance(node, data, uninit) ==
    LET x == extract_1part_msg(data, uninit)
        eth_addr == x.val
        earnings == node.db[eth_addr]
        amount == earnings.amount
        batchdb_height == earnings.height
        tag == buildTagHash("rewardTag", node.nettype)
        hash == keccak(<<tag, eth_addr, encode_integer_be32(amount)>>)
        sig == signHash(node.bls_pubkey, hash)
        d1 == DictAppend(<<>>, "address", view_guts(eth_addr))
        d2 == DictAppend(d1, "balance", amount)
        d3 == DictAppend(d2, "height", batchdb_height)
        d4 == DictAppend(d3, "signature", sig)
    IN  IF ~x.ok THEN Served(BadRequest, {})
        ELSE IF ZeroBalance(amount)
            THEN Served(<<"400", "Address has a zero balance in the database">>, {})
        ELSE Served(<<"200", d4>>, {hash})

\* a get_exit that appends the signature before the key
get_exit_SignatureFirst(node, data, uninit) ==
    LET x == extract_1part_msg(data, uninit)
        exiting_pk == x.val
        hash == keccak(<<buildTagHash("removalTag", node.nettype), exiting_pk>>)
        d1 == DictAppend(<<>>, "signature", signHash(node.bls_pubkey, hash))
        d2 == DictAppend(d1, "exit", view_guts(exiting_pk))
    IN  IF ~x.ok THEN Served(BadRequest, {})
        ELSE IF exiting_pk \notin node.removable THEN Served(Forbidden, {})
        ELSE Served(<<"200", d2>>, {hash})

\* BLSAggregator::get_exit on the node `node`
get_exit(node, data, uninit) ==
    LET x == extract_1part_msg(data, uninit)
        exiting_pk == x.val
        tag == buildTagHash("removalTag", node.nettype)
        hash == keccak(<<tag, exiting_pk>>)
        sig == signHash(node.bls_pubkey, hash)
        d1 == DictAppend(<<>>, "exit", view_guts(exiting_pk))
        d2 == DictAppend(d1, "signature", sig)
    IN  IF ~x.ok THEN Served(BadRequest, {})
        ELSE IF exiting_pk \notin node.removable THEN Served(Forbidden, {})
        ELSE Served(<<"200", d2>>, {hash})

\* BLSAggregator::get_liquidation on the node `node`
get_liquidation(node, data, uninit) ==
    LET x == extract_1part_msg(data, uninit)
        liquidating_pk == x.val
        tag == buildTagHash("liquidateTag", node.nettype)
        hash == keccak(<<tag, liquidating_pk>>)
        sig == signHash(node.bls_pubkey, hash)
        d1 == DictAppend(<<>>, "liquidate", view_guts(liquidating_pk))
        d2 == DictAppend(d1, "signature", sig)
    IN  IF ~x.ok THEN Served(BadRequest, {})
        ELSE IF liquidating_pk \notin node.liquidatable THEN Served(Forbidden, {})
        ELSE Served(<<"200", d2>>, {hash})

\* the request command registered for an endpoint (BLSAggregator constructor)
Serve(endpoint, node, data, uninit) ==
    CASE endpoint = "bls.get_reward_balance" -> get_reward_balance(node, data, uninit)
      [] endpoint = "bls.get_exit" -> get_exit(node, data, uninit)
      [] endpoint = "bls.get_liquidation" -> get_liquidation(node, data, uninit)

\* the reply the requester gets from it
Respond(endpoint, node, data, uninit) == Serve(endpoint, node, data, uninit).reply

\* a handler that goes on after extract_1part_msg has failed
ReturnsOnBadRequest_FallThrough == FALSE

\* if (!extract_1part_msg(...)) return;
ReturnsOnBadRequest == TRUE

\* the handler from its precondition test on, run on the value val its local
\* holds: it sends the refusal and returns, or signs and sends the "200"
HandlerBody(endpoint, node, val) == Respond(endpoint, node, <<view_guts(val)>>, val)

\* the m.send_reply calls of one run of a handler, in order: the "400" sent
\* inside extract_1part_msg when it fails, and what the handler sends after it
SendReplies(endpoint, node, data, uninit) ==
    LET x == extract_1part_msg(data, uninit)
    IN  IF ~x.ok
        THEN IF ReturnsOnBadRequest THEN <<BadRequest>>
             ELSE <<BadRequest, HandlerBody(endpoint, node, x.val)>>
        ELSE <<HandlerBody(endpoint, node, x.val)>>

\* ------------------------------------------------------ response handlers

Reject(stage) == [accept |-> FALSE, stage |-> stage, sig |-> <<>>]

\* a handler that does not compare the echoed fields
EchoMatches_Unchecked(expected, echoed) == TRUE

\* the != comparisons of an echoed claim field with the field of result
EchoMatches(expected, echoed) == expected = echoed

\* a handler that verifies against the key the signature itself names
SignatureVerifies_ReplyKey(sig, sn, result) == verifyHash(sig, sig.signer, result.signed_hash)

\* bls_sig.verifyHash(from_crypto_pubkey(request_result.sn.bls_pubkey),
\*                    result.signed_hash.data(), result.signed_hash.size())
SignatureVerifies(sig, sn, result) == verifyHash(sig, sn.bls_pubkey, result.signed_hash)

Accept(sig) == [accept |-> TRUE, stage |-> "fold", sig |-> sig]

\* the try block of the response callback of rewards_request, up to the lock of
\* sig_mutex: the step at which the response is rejected (an exception, caught
\* and logged), or the verified signature to fold
RewardsCallback(result, sn, success, data) ==
    IF ~success \/ Len(data) # 2 \/ data[1] # "200" THEN Reject("status")
    ELSE
    LET bal == require(data[2], "balance")
        hei == require(bal.d, "height")
        sig == require(hei.d, "signature")
        adr == require(sig.d, "address")
    IN  IF ~bal.ok \/ ~hei.ok \/ ~sig.ok THEN Reject("missing")
        ELSE IF ~adr.ok THEN Reject("missing")
        ELSE IF ~EchoMatches(result.address, make_from_guts(adr.val)) THEN Reject("field")
        ELSE IF ~EchoMatches(result.amount, bal.val) \/ ~EchoMatches(result.height, hei.val)
            THEN Reject("field")
        ELSE IF ~SignatureVerifies(sig.val, sn, result) THEN Reject("signature")
        ELSE Accept(sig.val)

\* a handler that verifies the signature before it compares the echoed key
ExitCallback_VerifyFirst(result, pubkey_key, sn, success, data) ==
    IF ~success \/ Len(data) # 2 \/ data[1] # "200" THEN Reject("status")
    ELSE
    LET pk == require(data[2], pubkey_key)
        sig == require(pk.d, "signature")
    IN  IF ~pk.ok \/ ~sig.ok THEN Reject("missing")
        ELSE IF ~SignatureVerifies(sig.val, sn, result) THEN Reject("signature")
        ELSE IF ~EchoMatches(result.exit_pubkey, make_from_guts(pk.val)) THEN Reject("field")
        ELSE Accept(sig.val)

\* the try block of the response callback of aggregateExitOrLiquidate
ExitCallback(result, pubkey_key, sn, success, data) ==
    IF ~success \/ Len(data) # 2 \/ data[1] # "200" THEN Reject("status")
    ELSE
    LET pk == require(data[2], pubkey_key)
        sig == require(pk.d, "signature")
    IN  IF ~pk.ok THEN Reject("missing")
        ELSE IF ~EchoMatches(result.exit_pubkey, make_from_guts(pk.val)) THEN Reject("field")
        ELSE IF ~sig.ok THEN Reject("missing")
        ELSE IF ~SignatureVerifies(sig.val, sn, result) THEN Reject("signature")
        ELSE Accept(sig.val)

\* a liquidation entry point that passes the removal tag
HashTagOf_AlwaysRemoval(kind) == "removalTag"

\* aggregateExit / aggregateLiquidation: the tag, endpoint and reply key of a kind
HashTagOf(kind) == BaseTag(kind)

EndpointOf(kind) ==
    CASE kind = "reward" -> "bls.get_reward_balance"
      [] kind = "exit" -> "bls.get_exit"
      [] kind = "liquidate" -> "bls.get_liquidation"

PubkeyKeyOf(kind) == IF kind = "exit" THEN "exit" ELSE "liquidate"

\* the callback nodesRequest is given by the entry point of a kind
Callback(kind, result, sn, success, data) ==
    IF kind = "reward" THEN RewardsCallback(result, sn, success, data)
    ELSE ExitCallback(result, PubkeyKeyOf(kind), sn, success, data)

\* ------------------------------------------------------------------ state

VARIABLES
    kind,               \* the entry point called: rewards_request, aggregateExit, aggregateLiquidation
    arg,                \* its argument: the address, or the BLS key to exit / liquidate
    core,               \* the local node: nettype, accrued earnings, chain height
    snodes,             \* nodesRequest: the copy of the reachable active service nodes
    net,                \* what answers at each snode (the transport and the peer behind it)
    pc,                 \* position of the calling thread
    i_loop,             \* nodesRequest: the loop index i (1-based)
    active_connections, \* nodesRequest: the counter guarded by connection_mutex
    req,                \* per snode: the state of its request and of its completion lambda
    resp,               \* per snode: the (success, data) its completion lambda was called with
    sig_mutex,          \* sig_mutex / signers_mutex: 0 free, else the snode index of the holder
    aggSig,             \* the running aggregate bls::Signature
    result,             \* BLSRewardsResponse / AggregateExitResponse being built
    sent,               \* history: per snode, the omq.request calls made for it
    called,             \* history: per snode, the calls of the callback for it
    folded,             \* history: the snodes whose callback ran aggSig.add
    pushed,             \* history: the snodes whose callback ran push_back
    rs,                 \* the local node as a responder: the request it is serving
    other               \* a second call on the node: its arguments and its locals

vars == <<kind, arg, core, snodes, net, pc, i_loop, active_connections, req, resp,
          sig_mutex, aggSig, result, sent, called, folded, pushed, rs, other>>

hist == <<sent, called, folded, pushed>>

inputs == <<kind, arg, core, snodes, net>>

\* what the actions of an aggregation call leave alone
fixed == <<inputs, rs, other>>

\* the local node has received no request
NoRequest ==
    [phase |-> "idle", endpoint |-> "none", data |-> <<>>, uninit |-> ZeroAddr,
     reply |-> <<>>, signed |-> {}, served |-> 0, replies |-> <<>>]

\* no second call is running
NoCall == [pc |-> "none"]

\* no response delivered yet
NoResp == [success |-> FALSE, data |-> <<"none">>]

\* sqlite_db().get_accrued_earnings of a node whose ledger holds (height, amount)
\* for Subject1 and nothing for any other address
DbOf(height, amount) ==
    [a \in Subjects |->
        IF a = Subject1 THEN [height |-> height, amount |-> amount]
        ELSE [height |-> height, amount |-> 0]]

\* the local nodes of the model: nettype is core.get_nettype(), db the rewards
\* ledger, height service_node_list.height(), removable and liquidatable the
\* keys for which core.is_node_removable / core.is_node_liquidatable hold
Cores ==
    {[nettype |-> "mainnet", db |-> DbOf(h, a), height |-> 5,
      removable |-> {Subject1}, liquidatable |-> {Subject1}] : h \in {3, 7}, a \in {0, 1000}}

\* the local node whose ledger makes the rewards claim of Subject1 valid and
\* for which Subject1 is removable and liquidatable
GoodCore ==
    [nettype |-> "mainnet", db |-> DbOf(3, 1000), height |-> 5,
     removable |-> {Subject1}, liquidatable |-> {Subject1}]

\* peer lists of n entries: entry j has BLS key j, or repeats the key of entry 1
PeerLists(n) ==
    {[j \in 1..n |-> [x_pubkey |-> j, bls_pubkey |-> f[j]]] :
        f \in {g \in [1..n -> 1..n] : \A j \in 1..n : g[j] \in {1, j}}}

N == Len(snodes)

Peers == 1..N

\* the result object before the entry point fills it (value-initialised)
EmptyResult ==
    [address |-> ZeroAddr, amount |-> 0, height |-> 0, exit_pubkey |-> ZeroAddr,
     signed_hash |-> <<>>, signature |-> ClearedSignature, signers_bls_pubkeys |-> <<>>]

InitCall ==
    /\ pc = "call"
    /\ i_loop = 1
    /\ active_connections = 0
    /\ req = [j \in Peers |-> "idle"]
    /\ resp = [j \in Peers |-> NoResp]
    /\ sig_mutex = 0
    /\ aggSig = ClearedSignature
    /\ result = EmptyResult
    /\ sent = [j \in Peers |-> 0]
    /\ called = [j \in Peers |-> 0]
    /\ folded = {}
    /\ pushed = {}

\* any call on any peer list of up to MaxPeers entries, every peer free to
\* answer in any way
Init ==
    /\ kind \in Kinds
    /\ arg \in IF kind = "reward" THEN {ZeroAddr, Subject1} ELSE {Subject1}
    /\ core \in IF kind = "reward" THEN Cores ELSE {GoodCore}
    /\ \E n \in 0..MaxPeers : snodes \in PeerLists(n)
    /\ net = [j \in Peers |-> "any"]
    /\ rs = NoRequest
    /\ other = NoCall
    /\ InitCall

\* a ledger that holds (height, amount) for every address, the zero address too
DbAll(height, amount) == [a \in Subjects |-> [height |-> height, amount |-> amount]]

\* local nodes for the calls of one entry point with any argument: ledgers with
\* and without earnings, at and ahead of the chain height, and eligibility
\* state that holds the subject or not
ArgCores ==
    {[nettype |-> "mainnet", db |-> d, height |-> 5, removable |-> e, liquidatable |-> e] :
        d \in {DbOf(h, a) : h \in {3, 7}, a \in {0, 1000}} \cup {DbAll(3, 1000)},
        e \in {{}, {Subject1}}}

\* any call of any entry point, with any argument on any local node, over one peer
InitArgs ==
    /\ kind \in Kinds
    /\ arg \in Subjects
    /\ core \in ArgCores
    /\ snodes \in PeerLists(1)
    /\ net = [j \in Peers |-> "any"]
    /\ rs = NoRequest
    /\ other = NoCall
    /\ InitCall

\* ------------------------------------------------------------ entry points

\* an argument check that leaves out the test of the address
RewardsArgsValid_NoAddressCheck(address, amount, height, chain_height) ==
    /\ amount # 0
    /\ ~(height > chain_height)


\* the NOTE: Validate the arguments block of rewards_request
RewardsArgsValid(address, amount, height, chain_height) ==
    /\ address # ZeroAddr
    /\ amount # 0
    /\ ~(height > chain_height)

\* an aggregate that is declared and never cleared
NewAggSig_Uncleared == SetToBag({signHash(0, <<>>)})

\* bls::Signature aggSig; aggSig.clear();
NewAggSig == ClearedSignature

\* rewards_request up to the call of nodesRequest
EnterRewards ==
    /\ pc = "call"
    /\ kind = "reward"
    /\ LET earnings == core.db[arg]
       IN  IF RewardsArgsValid(arg, earnings.amount, earnings.height, core.height)
           THEN /\ result' = [result EXCEPT
                        !.address = arg,
                        !.amount = earnings.amount,
                        !.height = earnings.height,
                        !.signed_hash = RewardHash(core.nettype, arg, earnings.amount)]
                /\ pc' = "loop"
           ELSE /\ pc' = "thrown"
                /\ UNCHANGED result
    /\ aggSig' = NewAggSig
    /\ UNCHANGED <<fixed, hist, i_loop, active_connections, req, resp, sig_mutex>>

\* aggregateExitOrLiquidate up to the call of nodesRequest
EnterExit ==
    /\ pc = "call"
    /\ kind # "reward"
    /\ result' = [result EXCEPT
            !.exit_pubkey = arg,
            !.signed_hash = ExitHash(HashTagOf(kind), core.nettype, arg)]
    /\ aggSig' = NewAggSig
    /\ pc' = "loop"
    /\ UNCHANGED <<fixed, hist, i_loop, active_connections, req, resp, sig_mutex>>

\* ------------------------------------------------------------ nodesRequest

\* a loop that dispatches without counting the request
LoopIncrement_NotCounted ==
    /\ pc = "loop"
    /\ i_loop <= N
    /\ pc' = "request"
    /\ UNCHANGED <<fixed, hist, i_loop, active_connections, req, resp, sig_mutex, aggSig, result>>

\* the branch of `if (1)`: ++active_connections under connection_mutex.  The
\* else branch (the wait for active_connections < MAX_CONNECTIONS) is never taken
LoopIncrement ==
    /\ pc = "loop"
    /\ i_loop <= N
    /\ active_connections' = active_connections + 1
    /\ pc' = "request"
    /\ UNCHANGED <<fixed, hist, i_loop, req, resp, sig_mutex, aggSig, result>>

\* a loop that stays on the same snode and asks it again
NextIndex_Retry(i) == i

\* the i++ of the for loop
NextIndex(i) == i + 1

\* omq.request(snode.x_pubkey, request_name, lambda, message), then i++
LoopRequest ==
    /\ pc = "request"
    /\ req' = [req EXCEPT ![i_loop] = "inflight"]
    /\ sent' = [sent EXCEPT ![i_loop] = @ + 1]
    /\ i_loop' = NextIndex(i_loop)
    /\ pc' = "loop"
    /\ UNCHANGED <<fixed, called, folded, pushed, active_connections, resp, sig_mutex,
                   aggSig, result>>

\* the loop ends: the calling thread reaches the final cv.wait
LoopEnd ==
    /\ pc = "loop"
    /\ i_loop > N
    /\ pc' = "wait"
    /\ UNCHANGED <<fixed, hist, i_loop, active_connections, req, resp, sig_mutex, aggSig, result>>

\* a final wait that does not look at the counter
JoinPredicate_NoWait(c) == TRUE

\* the predicate of the final cv.wait
JoinPredicate(c) == c = 0

\* cv.wait(lock, active_connections == 0): the predicate is read under
\* connection_mutex; the thread returns from nodesRequest or blocks on cv
WaitCheck ==
    /\ pc = "wait"
    /\ pc' = IF JoinPredicate(active_connections) THEN "joined" ELSE "blocked"
    /\ UNCHANGED <<fixed, hist, i_loop, active_connections, req, resp, sig_mutex, aggSig, result>>

\* result.signature = to_crypto_signature(aggSig); return result
Finalize ==
    /\ pc = "joined"
    /\ result' = [result EXCEPT !.signature = aggSig]
    /\ pc' = "returned"
    /\ UNCHANGED <<fixed, hist, i_loop, active_connections, req, resp, sig_mutex, aggSig>>

\* ------------------------------------------------------- peers, transport

\* the message nodesRequest sends: tools::view_guts(address) / view_guts(bls_pubkey)
RequestData == <<view_guts(arg)>>

\* the node behind snode j when it runs the responders of this file; `ledger`
\* says how its ledger and eligibility state relate to the caller's claim
HonestNode(j, ledger) ==
    LET mine == core.db[Subject1]
    IN  [bls_pubkey |-> snodes[j].bls_pubkey,
         nettype |-> IF ledger = "testnet" THEN "testnet" ELSE core.nettype,
         db |-> CASE ledger = "amount" -> DbOf(mine.height, mine.amount + 1)
                  [] ledger = "height" -> DbOf(mine.height + 1, mine.amount)
                  [] ledger = "zero" -> DbOf(mine.height, 0)
                  [] OTHER -> core.db,
         removable |-> IF ledger \in {"same", "testnet"} THEN {Subject1} ELSE {},
         liquidatable |-> IF ledger \in {"same", "testnet"} THEN {Subject1} ELSE {}]

\* the replies of such a node to the request: one per value the default-initialised
\* subject of the responder can hold
HonestReplies(j, ledger) ==
    {[success |-> TRUE,
      data |-> Respond(EndpointOf(kind), HonestNode(j, ledger), RequestData, u)] :
        u \in Subjects}

\* the transport reports failure (unreachable peer, timeout)
Unreachable == [success |-> FALSE, data |-> <<>>]

\* a rewards reply dict with its keys in ascending order
SortedRewardsReply(a, b, h, s) ==
    <<"200", DictAppend(DictAppend(DictAppend(DictAppend(<<>>,
        "address", a), "balance", b), "height", h), "signature", s)>>

\* a rewards reply dict a peer wrote with "address" last
UnsortedRewardsReply(a, b, h, s) ==
    <<"200", DictAppend(DictAppend(DictAppend(DictAppend(<<>>,
        "balance", b), "height", h), "signature", s), "address", a)>>

ExitReply(key, pk, s) == <<"200", DictAppend(DictAppend(<<>>, key, pk), "signature", s)>>

\* replies of a peer that does not run the responders of this file: it echoes
\* what it likes, signs with its own key what it likes, and replays signatures
\* of other keys
ForgedReplies(j) ==
    LET own == signHash(snodes[j].bls_pubkey, result.signed_hash)
        replayed == signHash(0, result.signed_hash)
        elsewhere == signHash(snodes[j].bls_pubkey, <<"keccak", <<>>>>)
        a == result.address
        b == result.amount
        h == result.height
        k == PubkeyKeyOf(kind)
        datas ==
            IF kind = "reward"
            THEN {UnsortedRewardsReply(a, b, h, own),
                  UnsortedRewardsReply(Subject2, b, h, own),
                  UnsortedRewardsReply(a, b + 1, h, own),
                  UnsortedRewardsReply(a, b, h + 1, own),
                  UnsortedRewardsReply(a, b, h, replayed),
                  UnsortedRewardsReply(a, b, h, elsewhere),
                  SortedRewardsReply(a, b + 1, h, own),
                  <<"200", DictAppend(DictAppend(<<>>, "balance", b), "height", h)>>,
                  <<"200">>}
            ELSE {ExitReply(k, Subject2, own),
                  ExitReply(k, result.exit_pubkey, replayed),
                  ExitReply(k, result.exit_pubkey, elsewhere),
                  <<"200", DictAppend(<<>>, k, result.exit_pubkey)>>,
                  <<"200", DictAppend(<<>>, "signature", own)>>,
                  <<"200">>}
    IN  {[success |-> TRUE, data |-> d] : d \in datas}

\* the hex digit of a nibble, lower or upper case
HexChar(n, upper) == IF n < 10 THEN 48 + n ELSE IF upper THEN 55 + n ELSE 87 + n

\* the hex encoding of the bytes of v
HexOf(v, upper) ==
    [i \in 1..(2 * Len(v)) |->
        IF i % 2 = 1 THEN HexChar(v[(i + 1) \div 2] \div 16, upper)
        ELSE HexChar(v[i \div 2] % 16, upper)]

\* the request commands of the bls category
Endpoints == {"bls.get_reward_balance", "bls.get_exit", "bls.get_liquidation"}

\* the signatures the responder `endpoint` of the node behind snode j makes for
\* the subject of the call when that node is on the network `nettype` and its
\* precondition holds
ResponderSignatures(j, endpoint, nettype) ==
    LET node == [bls_pubkey |-> snodes[j].bls_pubkey, nettype |-> nettype,
                 db |-> DbOf(result.height, result.amount),
                 removable |-> {arg}, liquidatable |-> {arg}]
    IN  {signHash(node.bls_pubkey, h) :
            h \in Serve(endpoint, node, <<HexOf(arg, FALSE)>>, arg).signed}

\* replies of a peer that fails, refuses, or answers in the format of the call,
\* echoing the subject of the claim or another one, with a signature its
\* responders made for any kind on any network
ReplayReplies(j) ==
    LET sigs == UNION {ResponderSignatures(j, e, n) : e \in Endpoints, n \in Nettypes}
    IN  {Unreachable, [success |-> TRUE, data |-> Forbidden]} \cup
        {[success |-> TRUE,
          data |-> IF kind = "reward"
                   THEN UnsortedRewardsReply(a, result.amount, result.height, sg)
                   ELSE ExitReply(PubkeyKeyOf(kind), a, sg)] :
            sg \in sigs, a \in {arg, Subject2}}

\* what the completion lambda of snode j can be called with
Replies(j) ==
    CASE net[j] = "unreachable" -> {Unreachable}
      [] net[j] = "replay" -> ReplayReplies(j)
      [] net[j] = "valid" -> HonestReplies(j, "same")
      [] net[j] = "mismatch" -> HonestReplies(j, "amount")
      [] OTHER ->
            {Unreachable} \cup ForgedReplies(j) \cup
            UNION {HonestReplies(j, l) : l \in {"same", "amount", "height", "zero", "testnet"}}

\* a lambda that captured the first snode instead of its own
RequestResultSn_First(j) == snodes[1]

\* BLSRequestResult{snodes[i], success}: the snode the lambda of request j reports
RequestResultSn(j) == snodes[j]

\* what the try block of the callback of request j decided
Outcome(j) == Callback(kind, result, RequestResultSn(j), resp[j].success, resp[j].data)

\* a handler that catches std::runtime_error only: the exception of a failed
\* d.require passes through it
Caught_RuntimeErrorOnly(stage) == stage # "missing"

\* catch (const std::exception& e) of the callback: every rejection of the try
\* block, at whatever stage it was thrown, ends in the catch block
Caught(stage) == TRUE

\* the transport calls the completion lambda of request j, which calls the
\* callback: the try block runs up to the lock of sig_mutex, or to the catch;
\* an exception that is not caught leaves the lambda before its decrement
Complete(j) ==
    /\ req[j] = "inflight"
    /\ \E r \in Replies(j) :
        /\ resp' = [resp EXCEPT ![j] = r]
        /\ called' = [called EXCEPT ![j] = @ + 1]
        /\ LET o == Callback(kind, result, RequestResultSn(j), r.success, r.data)
           IN  req' = [req EXCEPT ![j] =
                    IF o.accept THEN "verified"
                    ELSE IF Caught(o.stage) THEN "cbdone"
                    ELSE "escaped"]
    /\ UNCHANGED <<fixed, sent, folded, pushed, pc, i_loop, active_connections, sig_mutex, aggSig, result>>

\* a handler that enters the section without waiting for the mutex
LockSigMutex_NoWait(j) ==
    /\ req[j] = "verified"
    /\ sig_mutex' = j
    /\ req' = [req EXCEPT ![j] = "locked"]
    /\ UNCHANGED <<fixed, hist, pc, i_loop, active_connections, resp, aggSig, result>>

\* std::lock_guard lock{sig_mutex}
LockSigMutex(j) ==
    /\ req[j] = "verified"
    /\ sig_mutex = 0
    /\ sig_mutex' = j
    /\ req' = [req EXCEPT ![j] = "locked"]
    /\ UNCHANGED <<fixed, hist, pc, i_loop, active_connections, resp, aggSig, result>>

\* a fold that adds the signature twice
FoldSignature_Twice(agg, sig) == SigAdd(SigAdd(agg, sig), sig)

\* aggSig.add(bls_sig)
FoldSignature(agg, sig) == SigAdd(agg, sig)

AddSig(j) ==
    /\ req[j] = "locked"
    /\ aggSig' = FoldSignature(aggSig, Outcome(j).sig)
    /\ req' = [req EXCEPT ![j] = "added"]
    /\ folded' = folded \cup {j}
    /\ UNCHANGED <<fixed, sent, called, pushed, pc, i_loop, active_connections, resp, sig_mutex, result>>

\* a push_back of the node key instead of the BLS key
PushBackSigner_NodeKey(signers, sn) == Append(signers, sn.x_pubkey + 100)

\* result.signers_bls_pubkeys.push_back(request_result.sn.bls_pubkey)
PushBackSigner(signers, sn) == Append(signers, sn.bls_pubkey)

\* a handler that also writes the answering peer's key over the subject of
\* the claim
StoreSigner_OverClaim(res, sn) ==
    [res EXCEPT !.signers_bls_pubkeys = PushBackSigner(@, sn),
                !.address = Bytes(sn.bls_pubkey),
                !.exit_pubkey = Bytes(sn.bls_pubkey)]

\* the one write of the callback to the captured result: the push_back
StoreSigner(res, sn) ==
    [res EXCEPT !.signers_bls_pubkeys = PushBackSigner(@, sn)]

\* a handler that appends the key its reply echoes instead of the key of the
\* peer list entry
PushBack_EchoedKey(j) ==
    /\ req[j] = "added"
    /\ LET d == resp[j].data[2]
           k == IF kind = "reward" THEN "address" ELSE PubkeyKeyOf(kind)
           echoed == d[CHOOSE p \in 1..Len(d) : d[p].key = k].val
       IN  result' = [result EXCEPT !.signers_bls_pubkeys = Append(@, echoed[1])]
    /\ sig_mutex' = 0
    /\ req' = [req EXCEPT ![j] = "cbdone"]
    /\ pushed' = pushed \cup {j}
    /\ UNCHANGED <<fixed, sent, called, folded, pc, i_loop, active_connections, resp, aggSig>>

\* the push_back, then the end of the try block releases the lock_guard and
\* the callback returns
PushBack(j) ==
    /\ req[j] = "added"
    /\ result' = StoreSigner(result, RequestResultSn(j))
    /\ sig_mutex' = 0
    /\ req' = [req EXCEPT ![j] = "cbdone"]
    /\ pushed' = pushed \cup {j}
    /\ UNCHANGED <<fixed, sent, called, folded, pc, i_loop, active_connections, resp, aggSig>>

\* a completion lambda that decrements and never notifies
NotifyCondition_Never(c) == FALSE

\* if (--active_connections == 0) of the completion lambda
NotifyCondition(c) == c = 0

\* the tail of the completion lambda, under connection_mutex: the counter is
\* decremented and, at zero, cv.notify_all() wakes the blocked caller, which
\* evaluates its predicate again
Decrement(j) ==
    /\ req[j] = "cbdone"
    /\ active_connections > 0
    /\ active_connections' = active_connections - 1
    /\ req' = [req EXCEPT ![j] = "done"]
    /\ pc' = IF NotifyCondition(active_connections - 1) /\ pc = "blocked" THEN "wait" ELSE pc
    /\ UNCHANGED <<fixed, hist, i_loop, resp, sig_mutex, aggSig, result>>

\* ---------------------------------------------------------- specifications

Next ==
    \/ EnterRewards
    \/ EnterExit
    \/ LoopIncrement
    \/ LoopRequest
    \/ LoopEnd
    \/ WaitCheck
    \/ Finalize
    \/ \E j \in Peers : Complete(j)
    \/ \E j \in Peers : LockSigMutex(j)
    \/ \E j \in Peers : AddSig(j)
    \/ \E j \in Peers : PushBack(j)
    \/ \E j \in Peers : Decrement(j)

Spec == Init /\ [][Next]_vars

\* the end-to-end scenario: five peers running the responders of this file,
\* three holding the caller's claim, one a different amount (or, for an exit or
\* a liquidation, a key that is not eligible), one unreachable
E2EPeers == <<"valid", "valid", "valid", "mismatch", "unreachable">>

InitE2E ==
    /\ kind \in Kinds
    /\ arg = Subject1
    /\ core = GoodCore
    /\ snodes = [j \in 1..Len(E2EPeers) |-> [x_pubkey |-> j, bls_pubkey |-> j]]
    /\ net = E2EPeers
    /\ rs = NoRequest
    /\ other = NoCall
    /\ InitCall

SpecE2E == InitE2E /\ [][Next]_vars

SpecArgs == InitArgs /\ [][Next]_vars

\* -------------------------------------------------- the node as a responder

\* the encodings of a subject v as the single data part of a request: raw
\* bytes, hex, and hex after "0x" or "0X"
Encodings(v) ==
    {view_guts(v), HexOf(v, FALSE), HexOf(v, TRUE),
     <<48, 120>> \o HexOf(v, FALSE), <<48, 88>> \o HexOf(v, TRUE)}

\* data parts that are none of these: a non-hex character in a part of hex
\* length, with and without prefix, another prefix, and other lengths
BadParts ==
    LET h == HexOf(Subject1, FALSE)
    IN  {<<103>> \o Tail(h),
         <<48, 120, 103>> \o Tail(h),
         <<49, 120>> \o h,
         h \o <<48>>,
         <<>>}

\* the data of the requests a node can be sent
RequestDatas ==
    {<<e>> : e \in UNION {Encodings(v) : v \in Subjects} \cup BadParts}
        \cup {<<>>, <<view_guts(Subject1), view_guts(Subject1)>>,
              <<HexOf(Subject1, FALSE), HexOf(Subject1, FALSE)>>}

\* responding nodes: with and without a balance for Subject1, and with Subject1
\* removable, liquidatable, both or neither
RespNodes ==
    {[bls_pubkey |-> 1, nettype |-> "mainnet", db |-> d, height |-> 5,
      removable |-> r, liquidatable |-> l] :
        d \in {DbOf(3, 1000), DbOf(3, 0)}, r \in {{}, {Subject1}}, l \in {{}, {Subject1}}}

\* a node that serves requests and is not aggregating
InitResp ==
    /\ kind = "reward"
    /\ arg = Subject1
    /\ core \in RespNodes
    /\ snodes = <<>>
    /\ net = <<>>
    /\ rs = NoRequest
    /\ other = NoCall
    /\ InitCall

\* oxenmq calls the command registered for `endpoint` with a message of the
\* parts `data`; `u` is what the handler's uninitialised local holds
Receive(endpoint, data, u) ==
    /\ rs.phase \in {"idle", "replied"}
    /\ rs.served < MaxRequests
    /\ rs' = [phase |-> "handling", endpoint |-> endpoint, data |-> data, uninit |-> u,
              reply |-> <<>>, signed |-> {}, served |-> rs.served + 1, replies |-> <<>>]
    /\ UNCHANGED <<inputs, other, hist, pc, i_loop, active_connections, req, resp, sig_mutex,
                   aggSig, result>>

\* the handler runs to its m.send_reply
Handle ==
    /\ rs.phase = "handling"
    /\ LET run == Serve(rs.endpoint, core, rs.data, rs.uninit)
       IN  rs' = [rs EXCEPT !.phase = "replied", !.reply = run.reply, !.signed = run.signed,
                            !.replies = SendReplies(rs.endpoint, core, rs.data, rs.uninit)]
    /\ UNCHANGED <<inputs, other, hist, pc, i_loop, active_connections, req, resp, sig_mutex,
                   aggSig, result>>

NextResp ==
    \/ \E endpoint \in Endpoints, data \in RequestDatas, u \in Subjects :
            Receive(endpoint, data, u)
    \/ Handle

SpecResp == InitResp /\ [][NextResp]_vars

\* ------------------------------------------------------------ progress

\* a valid call of any kind over no, one or two peers that answer in any way
InitLive ==
    /\ kind \in Kinds
    /\ arg = Subject1
    /\ core = GoodCore
    /\ \E n \in {0, 1, 2} : snodes \in PeerLists(n)
    /\ net = [j \in Peers |-> "any"]
    /\ rs = NoRequest
    /\ other = NoCall
    /\ InitCall

\* the steps of the thread that called the entry point
CallerStep ==
    EnterRewards \/ EnterExit \/ LoopIncrement \/ LoopRequest \/ LoopEnd \/ WaitCheck \/ Finalize

\* the steps of the transport's threads: a completion lambda and its callback
TransportStep ==
    \E j \in Peers :
        Complete(j) \/ LockSigMutex(j) \/ AddSig(j) \/ PushBack(j) \/ Decrement(j)

\* the calling thread keeps running while it can, and the transport keeps
\* completing the requests it was given and running their lambdas
SpecLive == InitLive /\ [][Next]_vars /\ WF_vars(CallerStep) /\ WF_vars(TransportStep)

\* ------------------------------------------------------ two calls at once

\* the arguments and locals of a call that has not started: what InitCall gives
NewCall(k, a) ==
    [kind |-> k, arg |-> a, pc |-> "call", i_loop |-> 1, active_connections |-> 0,
     req |-> [j \in Peers |-> "idle"], resp |-> [j \in Peers |-> NoResp],
     sig_mutex |-> 0, aggSig |-> ClearedSignature, result |-> EmptyResult,
     sent |-> [j \in Peers |-> 0], called |-> [j \in Peers |-> 0],
     folded |-> {}, pushed |-> {}]

\* the arguments and locals of the call whose threads are running
ThisCall ==
    [kind |-> kind, arg |-> arg, pc |-> pc, i_loop |-> i_loop,
     active_connections |-> active_connections, req |-> req, resp |-> resp,
     sig_mutex |-> sig_mutex, aggSig |-> aggSig, result |-> result,
     sent |-> sent, called |-> called, folded |-> folded, pushed |-> pushed]

\* a counter that is a member of the aggregator, one for all calls
OwnCounter_Shared(mine, current) == current

\* size_t active_connections = 0 is a local of nodesRequest: the counter a call
\* works on is its own, whatever the counter of the call that ran before it
OwnCounter(mine, current) == mine

\* the scheduler lets a thread of the other call run: connection_mutex, cv and
\* active_connections are locals of its nodesRequest, sig_mutex, aggSig and
\* result locals of its entry point, and it finds them as it left them
Switch ==
    /\ other.pc # "none"
    /\ other' = [ThisCall EXCEPT
                    !.active_connections = OwnCounter(active_connections, active_connections)]
    /\ kind' = other.kind
    /\ arg' = other.arg
    /\ pc' = other.pc
    /\ i_loop' = other.i_loop
    /\ active_connections' = OwnCounter(other.active_connections, active_connections)
    /\ req' = other.req
    /\ resp' = other.resp
    /\ sig_mutex' = other.sig_mutex
    /\ aggSig' = other.aggSig
    /\ result' = other.result
    /\ sent' = other.sent
    /\ called' = other.called
    /\ folded' = other.folded
    /\ pushed' = other.pushed
    /\ UNCHANGED <<core, snodes, net, rs>>

\* two calls of any kinds for Subject1 on one node, over the same single peer,
\* which answers with the signatures of its responders
InitTwo ==
    /\ kind \in Kinds
    /\ arg = Subject1
    /\ core = GoodCore
    /\ snodes \in PeerLists(1)
    /\ net = [j \in Peers |-> "replay"]
    /\ rs = NoRequest
    /\ \E k \in Kinds : other = NewCall(k, Subject1)
    /\ InitCall

NextTwo == Next \/ Switch

SpecTwo == InitTwo /\ [][NextTwo]_vars

\* ------------------------------------------------ replayed signatures

\* a call of any kind on either network over two peers that answer with
\* signatures of their own responders for any kind and network
InitReplay ==
    /\ kind \in Kinds
    /\ arg = Subject1
    /\ \E n \in Nettypes : core = [GoodCore EXCEPT !.nettype = n]
    /\ snodes = [j \in 1..2 |-> [x_pubkey |-> j, bls_pubkey |-> j]]
    /\ net = [j \in Peers |-> "replay"]
    /\ rs = NoRequest
    /\ other = NoCall
    /\ InitCall

SpecReplay == InitReplay /\ [][Next]_vars

\* ------------------------------------------------- vocabulary of the claims

\* the claim of the call, from the caller's argument and the local ledger
ClaimField(k) ==
    CASE k = "address" -> arg
      [] k = "balance" -> core.db[arg].amount
      [] k = "height" -> core.db[arg].height
      [] OTHER -> arg

ClaimKeys == IF kind = "reward" THEN {"address", "balance", "height"} ELSE {PubkeyKeyOf(kind)}

\* the message hash of the claim, computed from the caller's inputs
ExpectedHash ==
    IF kind = "reward" THEN RewardHash(core.nettype, arg, core.db[arg].amount)
    ELSE ExitHash(BaseTag(kind), core.nettype, arg)

Range(f) == {f[x] : x \in DOMAIN f}

\* the callback of snode j has been called with a two-part "200" reply
HasReply(j) ==
    /\ called[j] > 0
    /\ resp[j].success
    /\ Len(resp[j].data) = 2
    /\ resp[j].data[1] = "200"

ReplyDict(j) == resp[j].data[2]

HasField(d, k) == \E p \in 1..Len(d) : d[p].key = k

FieldOf(d, k) == d[CHOOSE p \in 1..Len(d) : d[p].key = k].val

\* the keys of the dict ascend and are exactly the claim fields and "signature"
WellFormed(d) ==
    /\ \A p \in 1..(Len(d) - 1) : KeyLess(d[p].key, d[p + 1].key)
    /\ {d[p].key : p \in 1..Len(d)} = ClaimKeys \cup {"signature"}

EchoesClaim(d) == \A k \in ClaimKeys : HasField(d, k) /\ FieldOf(d, k) = ClaimField(k)

\* some echoed claim field differs from the original claim
EchoDiffers(d) == \E k \in ClaimKeys : HasField(d, k) /\ FieldOf(d, k) # ClaimField(k)

\* the signature of the reply verifies under the BLS key the peer list records
\* for snode j, over the hash of the claim
SignedByPeer(d, j) ==
    /\ HasField(d, "signature")
    /\ verifyHash(FieldOf(d, "signature"), snodes[j].bls_pubkey, ExpectedHash)

\* a well-formed, correctly echoed, validly signed reply
ValidResponse(j) ==
    /\ HasReply(j)
    /\ WellFormed(ReplyDict(j))
    /\ EchoesClaim(ReplyDict(j))
    /\ SignedByPeer(ReplyDict(j), j)

\* the requests dispatched and not yet completed
InFlight == {j \in Peers : sent[j] > 0 /\ req[j] # "done"}

\* the sum of one partial signature over h per entry of a key list
RECURSIVE PartialSum(_, _)
PartialSum(keys, h) ==
    IF keys = <<>> THEN ClearedSignature
    ELSE SigAdd(PartialSum(Tail(keys), h), signHash(Head(keys), h))

\* the bag of the BLS keys the peer list records for a set of snodes
RECURSIVE KeysOf(_)
KeysOf(S) ==
    IF S = {} THEN EmptyBag
    ELSE LET j == CHOOSE x \in S : TRUE
         IN  SetToBag({snodes[j].bls_pubkey}) (+) KeysOf(S \ {j})

Returned == pc = "returned"

\* ------------------------------------------------------------------ claims

\* C1: nodesRequest returns only after every request it dispatched has completed
\* and its callback has finished, and after the aggregation call has returned no
\* callback runs or changes the aggregate or the result.
C1_ReturnsAfterAllCallbacks ==
    /\ [](pc \in {"joined", "returned"} =>
            \A j \in Peers : sent[j] > 0 => (called[j] > 0 /\ req[j] = "done"))
    /\ [][Returned => UNCHANGED <<aggSig, result, called, folded, pushed, req>>]_vars

\* C1 witness: a call over two peers returned, one of them having contributed
C1_Witness == Returned /\ N = 2 /\ pushed # {} /\ \A j \in Peers : sent[j] = 1

\* C2 (as claimed): the requests dispatched and not yet completed never exceed
\* MAX_CONNECTIONS
C2_InFlightWithinCap == Cardinality(InFlight) <= MAX_CONNECTIONS

\* C3: each snode of the snapshot gets exactly one request and exactly one call of
\* the callback, which is made with that snode's identity and its own response
\* (a response the transport can deliver for that snode, looked at when the
\* callback has run and the lambda has not yet decremented the counter).
C3_OncePerPeer ==
    /\ \A j \in Peers : sent[j] <= 1 /\ called[j] <= sent[j]
    /\ pc \in {"joined", "returned"} => \A j \in Peers : sent[j] = 1 /\ called[j] = 1
    /\ \A j \in Peers : called[j] = 1 =>
        /\ req[j] \in {"verified", "cbdone"} => resp[j] \in Replies(j)
        /\ (req[j] \in {"verified", "locked", "added"} \/ j \in pushed)
            <=> Callback(kind, result, snodes[j], resp[j].success, resp[j].data).accept
    /\ Returned => AggPub(result.signers_bls_pubkeys) = KeysOf(pushed)

\* C3 witness: of two snodes with different keys the first failed and the second
\* contributed
C3_Witness ==
    /\ Returned /\ N = 2
    /\ snodes[1].bls_pubkey # snodes[2].bls_pubkey
    /\ ~resp[1].success
    /\ pushed = {2}

\* C4 (as claimed): for every kind, a response delivered with transport success,
\* status "200", a well-formed reply echoing the claim and a signature that
\* verifies under the peer's key is folded and the peer's key is in the returned
\* contributor list.
C4_ValidResponseContributes ==
    Returned => \A j \in Peers : ValidResponse(j) =>
        /\ j \in folded
        /\ snodes[j].bls_pubkey \in Range(result.signers_bls_pubkeys)

\* C5 (as claimed): no BLS key occurs twice in the returned contributor list and
\* no partial signature is added to the aggregate more than once.
C5_ContributesAtMostOnce ==
    Returned =>
        /\ \A p, q \in 1..Len(result.signers_bls_pubkeys) :
            p # q => result.signers_bls_pubkeys[p] # result.signers_bls_pubkeys[q]
        /\ \A sg \in BagToSet(result.signature) : CopiesIn(sg, result.signature) = 1

\* C6: a response with an echoed claim field that differs from the original claim
\* is rejected: its callback folds nothing and appends nothing, whatever it signed.
C6_MismatchedEchoRejected ==
    \A j \in Peers : (HasReply(j) /\ EchoDiffers(ReplyDict(j))) =>
        /\ req[j] \in {"cbdone", "done"}
        /\ j \notin folded
        /\ j \notin pushed
        /\ Returned => Len(result.signers_bls_pubkeys) = Cardinality(pushed)

\* C6 witness: a reply that echoes another subject or amount under a signature
\* of the peer over the claim's hash, and the reply of an honest peer whose
\* ledger holds another height, have both been rejected
C6_Witness ==
    /\ Returned
    /\ kind = "reward"
    /\ \E j \in Peers :
        /\ HasReply(j) /\ EchoDiffers(ReplyDict(j)) /\ SignedByPeer(ReplyDict(j), j)
        /\ Outcome(j).stage = "field"
        /\ j \notin pushed
    /\ \E j \in Peers :
        /\ HasReply(j) /\ WellFormed(ReplyDict(j)) /\ SignedByPeer(ReplyDict(j), j)
        /\ FieldOf(ReplyDict(j), "height") # ClaimField("height")
        /\ j \notin pushed

\* C7: a response is folded or appended only if its signature verifies under the
\* BLS key the peer list records for the answering snode, over the hash computed
\* from the caller's claim.
C7_BadSignatureRejected ==
    \A j \in Peers : (HasReply(j) /\ ~SignedByPeer(ReplyDict(j), j)) =>
        /\ req[j] \in {"cbdone", "done"}
        /\ j \notin folded
        /\ j \notin pushed

\* C7 witness: a correctly echoed reply was rejected for its signature alone: one
\* signed by another key, in a call that returned
C7_Witness ==
    /\ Returned
    /\ \E j \in Peers :
        /\ HasReply(j) /\ EchoesClaim(ReplyDict(j)) /\ HasField(ReplyDict(j), "signature")
        /\ FieldOf(ReplyDict(j), "signature").signer # snodes[j].bls_pubkey
        /\ FieldOf(ReplyDict(j), "signature").hash = ExpectedHash
        /\ Outcome(j).stage = "signature"
        /\ j \notin pushed

\* C8: at the return the aggregate is the sum of one partial signature over the
\* claim's hash per entry of the contributor list, these are the signatures of
\* the responses that were folded, and each of them verified.
C8_AggregateMatchesContributors ==
    Returned =>
        /\ result.signature = PartialSum(result.signers_bls_pubkeys, ExpectedHash)
        /\ folded = pushed
        /\ Len(result.signers_bls_pubkeys) = Cardinality(pushed)
        /\ AggPub(result.signers_bls_pubkeys) = KeysOf(pushed)
        /\ \A j \in folded : SignedByPeer(ReplyDict(j), j)
        /\ VerifyAggregate(result.signature, AggPub(result.signers_bls_pubkeys), ExpectedHash)

\* C8 witness: a call returned with two contributors
C8_Witness == Returned /\ Len(result.signers_bls_pubkeys) = 2

\* C9 (as claimed): in the end-to-end scenario of a rewards request the result has
\* exactly the three valid peers as contributors and an aggregate that verifies
\* against their keys and the claim's hash.
C9_EndToEndRewards ==
    (Returned /\ kind = "reward") =>
        /\ Len(result.signers_bls_pubkeys) = 3
        /\ Range(result.signers_bls_pubkeys) = {j \in Peers : net[j] = "valid"}
        /\ VerifyAggregate(result.signature, AggPub(result.signers_bls_pubkeys), ExpectedHash)

\* the contributor keys of the result, and every key of the model
Contributors == Range(result.signers_bls_pubkeys)

AllKeys == {snodes[j].bls_pubkey : j \in Peers} \cup {0}

ThreeContributors == Returned /\ Cardinality(Contributors) = 3 /\ Len(result.signers_bls_pubkeys) = 3

PassesValidation(j) ==
    /\ HasReply(j)
    /\ EchoesClaim(ReplyDict(j))
    /\ SignedByPeer(ReplyDict(j), j)

\* C11: a call in which no response passes validation (peers unreachable or
\* rejected, or no peer at all) raises no error once it has dispatched, and
\* returns the cleared signature and an empty contributor list.
C11_NothingValidReturnsIdentity ==
    /\ pc = "thrown" => \A j \in Peers : sent[j] = 0
    /\ (Returned /\ \A j \in Peers : ~PassesValidation(j)) =>
        /\ result.signature = ClearedSignature
        /\ result.signers_bls_pubkeys = <<>>
        /\ folded = {} /\ pushed = {}

\* C11 witness: a call over two peers returned, one peer unreachable and the
\* other answering "200" with a reply that was rejected
C11_Witness ==
    /\ Returned /\ N = 2
    /\ \A j \in Peers : ~PassesValidation(j)
    /\ \E j \in Peers : called[j] = 1 /\ ~resp[j].success
    /\ \E j \in Peers : HasReply(j)
    /\ result.signature = ClearedSignature

\* the callback of snode j was called and rejected its response
Rejected(j) == called[j] > 0 /\ ~Outcome(j).accept

\* C12: a response that fails (transport, status, part count, missing field,
\* mismatch, signature) ends in the handler: nothing escapes it and nothing is
\* thrown once requests are out, the loop still dispatches to every peer, the
\* counter still counts exactly the requests not yet completed, the failing
\* peer's included, and the caller is never left blocked at zero.
C12_FailureStaysInHandler ==
    /\ \A j \in Peers : Rejected(j) =>
            req[j] \in {"cbdone", "done"} /\ j \notin folded /\ j \notin pushed
    /\ (\E j \in Peers : sent[j] > 0) => pc # "thrown"
    /\ pc \in {"wait", "blocked", "joined", "returned"} => \A j \in Peers : sent[j] = 1
    /\ active_connections = Cardinality(InFlight) + (IF pc = "request" THEN 1 ELSE 0)
    /\ pc = "blocked" => active_connections > 0
    /\ Returned => \A j \in Peers : called[j] = 1 /\ req[j] = "done"

\* C12 witness: the reply of one peer lacked a field, the other peer's handler
\* ran after it and contributed, and the call returned
C12_Witness ==
    /\ Returned /\ N = 2
    /\ HasReply(1) /\ Rejected(1) /\ Outcome(1).stage = "missing"
    /\ 2 \in pushed
    /\ active_connections = 0

\* C13: from the dispatch on, whatever responses have been handled, the claim
\* fields of the result are the caller's argument and the local ledger's entry
\* for it (rewards: address, amount, height; exit and liquidation: the key) and
\* its message hash is the hash of that claim.
C13_ClaimFixedAtDispatch ==
    pc \notin {"call", "thrown"} =>
        /\ result.signed_hash = ExpectedHash
        /\ kind = "reward" =>
            /\ result.address = arg
            /\ result.amount = core.db[arg].amount
            /\ result.height = core.db[arg].height
        /\ kind # "reward" => result.exit_pubkey = arg

\* C13 witness: a rewards call returned after one response was folded and
\* another, echoing a different claim, was rejected
C13_Witness ==
    /\ Returned /\ kind = "reward" /\ N = 2
    /\ pushed # {}
    /\ \E j \in Peers : HasReply(j) /\ EchoDiffers(ReplyDict(j)) /\ Rejected(j)
    /\ result.address = Subject1

\* no request went out, no callback ran and no result was built
NothingDispatched ==
    /\ \A j \in Peers : sent[j] = 0 /\ called[j] = 0
    /\ active_connections = 0
    /\ result = EmptyResult

\* C14: a rewards call for the zero address, for an address whose ledger amount
\* is 0, or for a ledger height above the chain height ends in the validation
\* error, with no request dispatched and no result returned.
C14_RewardsArgsRejected ==
    (/\ kind = "reward"
     /\ \/ arg = ZeroAddr
        \/ core.db[arg].amount = 0
        \/ core.db[arg].height > core.height) =>
        /\ pc \in {"call", "thrown"}
        /\ NothingDispatched

\* C14 witness: a call for the zero address was rejected although the ledger
\* holds a positive amount for it at a height the chain has reached
C14_Witness ==
    /\ pc = "thrown" /\ kind = "reward" /\ N = 1
    /\ arg = ZeroAddr
    /\ core.db[arg].amount > 0
    /\ core.db[arg].height <= core.height

\* the claim of the call holds on the local node: the rewards arguments pass
\* the ledger tests, the key of an exit is removable, the key of a liquidation
\* is liquidatable
LocalClaimHolds ==
    CASE kind = "reward" ->
            /\ arg # ZeroAddr
            /\ core.db[arg].amount # 0
            /\ core.db[arg].height <= core.height
      [] kind = "exit" -> arg \in core.removable
      [] OTHER -> arg \in core.liquidatable

\* C15 (as claimed): whatever the entry point, a call whose claim does not hold
\* on the local node ends in a local validation failure with no request
\* dispatched.
C15_LocalCheckBeforeDispatch ==
    ~LocalClaimHolds =>
        /\ pc \in {"call", "thrown"}
        /\ \A j \in Peers : sent[j] = 0

\* ------------------------------------- vocabulary of the responder claims

\* the node has answered the request it was sent
Replied == rs.phase = "replied"

\* the kind of claim an endpoint serves
KindOf(endpoint) == CHOOSE k \in Kinds : EndpointOf(k) = endpoint

\* the peer-side precondition of an endpoint for the subject s on a node
PreconditionHolds(endpoint, node, s) ==
    CASE endpoint = "bls.get_reward_balance" -> node.db[s].amount > 0
      [] endpoint = "bls.get_exit" -> s \in node.removable
      [] OTHER -> s \in node.liquidatable

\* the message hash of the claim of an endpoint for the subject s on a node
ClaimHashOf(endpoint, node, s) ==
    IF endpoint = "bls.get_reward_balance"
    THEN RewardHash(node.nettype, s, node.db[s].amount)
    ELSE ExitHash(BaseTag(KindOf(endpoint)), node.nettype, s)

\* the reply is a "200" with a dict that holds a signature
CarriesSignature(reply) ==
    Len(reply) = 2 /\ reply[1] = "200" /\ HasField(reply[2], "signature")

\* the request has one part, the hex digits of s without prefix
IsBareHexOf(data, s) == data \in {<<HexOf(s, FALSE)>>, <<HexOf(s, TRUE)>>}

AllHexDigits(e) == \A i \in 1..Len(e) : IsHexDigit(e[i])

\* a data part in one of the three accepted forms: sizeof(T) raw bytes,
\* 2*sizeof(T) hex digits, or "0x"/"0X" and 2*sizeof(T) hex digits
WellFormedPart(e) ==
    \/ Len(e) = SizeofT
    \/ Len(e) = 2 * SizeofT /\ AllHexDigits(e)
    \/ /\ Len(e) = 2 + 2 * SizeofT
       /\ e[1] = 48 /\ e[2] \in {120, 88}
       /\ AllHexDigits(SubSeq(e, 3, Len(e)))

WellFormedRequest(data) == Len(data) = 1 /\ WellFormedPart(data[1])

\* the request asks for the subject s, in any of the accepted encodings
Requests(data, s) == Len(data) = 1 /\ data[1] \in Encodings(s)

\* C17 (as claimed): for all three endpoints a well-formed request for a subject
\* whose precondition does not hold on the node is answered "403", and "400"
\* answers malformed requests only.
C17_PreconditionFailureIs403 ==
    Replied =>
        /\ \A s \in Subjects :
                (Requests(rs.data, s) /\ ~PreconditionHolds(rs.endpoint, core, s)) =>
                    rs.reply[1] = "403"
        /\ rs.reply[1] = "400" => ~WellFormedRequest(rs.data)

\* C18 (as claimed): a request whose single part is the raw bytes of a subject
\* is accepted and served exactly as the request for the bare hex digits of the
\* same bytes is: same precondition test, same signed hash, same echoed subject.
C18_RawBytesDecodeAsHex ==
    Replied => \A s \in Subjects :
        rs.data = <<view_guts(s)>> =>
            /\ rs.reply[1] # "400" \/ ~PreconditionHolds(rs.endpoint, core, s)
            /\ rs.reply = Serve(rs.endpoint, core, <<HexOf(s, FALSE)>>, rs.uninit).reply
            /\ rs.signed = Serve(rs.endpoint, core, <<HexOf(s, FALSE)>>, rs.uninit).signed

\* C19 (as claimed): a request whose single part is "0x" or "0X" followed by the
\* hex digits of a subject is not refused as a bad request and is served exactly
\* as the request for the same digits without the prefix.
C19_PrefixedHexDecodesAsHex ==
    Replied => \A s \in Subjects : \A up \in BOOLEAN : \A x \in {120, 88} :
        rs.data = <<(<<48, x>> \o HexOf(s, up))>> =>
            /\ rs.reply # BadRequest
            /\ rs.reply = Serve(rs.endpoint, core, <<HexOf(s, up)>>, rs.uninit).reply
            /\ rs.signed = Serve(rs.endpoint, core, <<HexOf(s, up)>>, rs.uninit).signed

\* C20: a request that does not carry exactly one data part, or whose part is
\* neither sizeof(T) raw bytes, nor 2*sizeof(T) hex digits, nor "0x"/"0X" and
\* 2*sizeof(T) hex digits (a part of hex length with a non-hex character
\* included), is answered "400" and nothing is signed for it.
C20_MalformedIs400 ==
    (Replied /\ ~WellFormedRequest(rs.data)) =>
        /\ Len(rs.reply) = 2
        /\ rs.reply[1] = "400"
        /\ rs.signed = {}
        /\ ~CarriesSignature(rs.reply)

\* C20 witness: a part of hex length holding a non-hex character was answered
\* "400" by a node on which every precondition holds
C20_Witness ==
    /\ Replied
    /\ Len(rs.data) = 1
    /\ Len(rs.data[1]) = 2 * SizeofT
    /\ ~AllHexDigits(rs.data[1])
    /\ rs.reply[1] = "400"
    /\ \A e \in Endpoints : PreconditionHolds(e, core, Subject1)

\* --------------------------------------------- vocabulary of the hash claims

\* the rewards claim the call was entered with, as the result records it
ResultClaim == [address |-> result.address, amount |-> result.amount, height |-> result.height]

\* rewards claims next to it: other addresses, the adjacent amounts and heights
NearClaims ==
    [address : Subjects,
     amount : {result.amount, result.amount + 1, result.amount - 1},
     height : {result.height, result.height + 1, result.height - 1}]

\* the message hash of a rewards claim on a network, as both sides compute it
MessageHash(nettype, c) == RewardHash(nettype, c.address, c.amount)

DiffersOnlyIn(c, d, field) ==
    /\ c[field] # d[field]
    /\ \A f \in {"address", "amount", "height"} \ {field} : c[f] = d[f]

Dispatching == pc \notin {"call", "thrown"}

\* C21 (as claimed): the message hash of a rewards claim is a function of tag and
\* claim, and a claim that differs from it in the address only, in the amount
\* only or in the height only has a different message hash.
C21_EveryFieldChangesHash ==
    (Dispatching /\ kind = "reward") =>
        /\ result.signed_hash = MessageHash(core.nettype, ResultClaim)
        /\ \A c \in NearClaims : \A f \in {"address", "amount", "height"} :
                DiffersOnlyIn(c, ResultClaim, f) =>
                    MessageHash(core.nettype, c) # result.signed_hash

\* C21 (amended): the message hash of a rewards claim is a function of tag,
\* address and amount: a claim that differs in the address only or in the amount
\* only has a different hash, on another network the same claim has a different
\* hash, and a claim that differs in the height only has the same hash.
C21_AddressAndAmountChangeHash ==
    (Dispatching /\ kind = "reward") =>
        /\ result.signed_hash = MessageHash(core.nettype, ResultClaim)
        /\ \A c \in NearClaims :
            /\ \A f \in {"address", "amount"} :
                    DiffersOnlyIn(c, ResultClaim, f) =>
                        MessageHash(core.nettype, c) # result.signed_hash
            /\ DiffersOnlyIn(c, ResultClaim, "height") =>
                    MessageHash(core.nettype, c) = result.signed_hash
        /\ \A n \in Nettypes \ {core.nettype} :
                MessageHash(n, ResultClaim) # result.signed_hash

\* C21 witness: a rewards call for Subject1 has computed the hash of its claim
C21_Witness ==
    /\ Dispatching /\ kind = "reward"
    /\ result.address = Subject1 /\ result.amount > 0
    /\ result.signed_hash = RewardHash(core.nettype, Subject1, result.amount)

\* C22: a signature a peer's responder made for another kind or another
\* network than the call's does not verify against the call's hash and is
\* never folded or appended, under the same key and for the same subject; the
\* tags of the three kinds on the two networks are pairwise different.
C22_NoCrossKindOrNetworkFold ==
    /\ \A k1, k2 \in Kinds : \A n1, n2 \in Nettypes :
            <<k1, n1>> # <<k2, n2>> =>
                buildTagHash(BaseTag(k1), n1) # buildTagHash(BaseTag(k2), n2)
    /\ Dispatching =>
        \A j \in Peers : \A e \in Endpoints : \A n \in Nettypes :
            (e # EndpointOf(kind) \/ n # core.nettype) =>
                /\ \A sg \in ResponderSignatures(j, e, n) :
                        ~verifyHash(sg, snodes[j].bls_pubkey, result.signed_hash)
                /\ (HasReply(j) /\ FieldOf(ReplyDict(j), "signature") \in
                                        ResponderSignatures(j, e, n)) =>
                        /\ req[j] \in {"cbdone", "done"}
                        /\ j \notin folded /\ j \notin pushed

\* C22 witness: a liquidation call returned after it rejected, for its
\* signature, the get_exit signature of peer 1 for the same key, and folded the
\* get_liquidation signature of peer 2
C22_Witness ==
    /\ Returned /\ kind = "liquidate"
    /\ HasReply(1)
    /\ FieldOf(ReplyDict(1), "signature") \in ResponderSignatures(1, "bls.get_exit", core.nettype)
    /\ Outcome(1).stage = "signature"
    /\ pushed = {2}

\* C23: when the transport completes every request it was given, every call
\* returns, whatever the order of completions and dispatches and also over an
\* empty peer list.
C23_EventuallyReturns == <>Returned

\* C23 witness: the first of two requests completed, and its lambda took the
\* counter to zero, before the loop dispatched the second
C23_Witness ==
    /\ N = 2 /\ pc = "loop" /\ i_loop = 2
    /\ req[1] = "done" /\ sent[2] = 0
    /\ active_connections = 0

\* C24 (as claimed): for every kind, a "200" reply whose dict holds exactly the
\* claim fields and "signature" in ascending key order is never rejected by the
\* handler as missing a field.
C24_WellFormedReplyHasAllFields ==
    \A j \in Peers :
        (HasReply(j) /\ WellFormed(ReplyDict(j))) => Outcome(j).stage # "missing"

\* the keys of a reply dict, in the order they were written
KeySeq(d) == [p \in 1..Len(d) |-> d[p].key]

\* the keys a "200" reply of an endpoint is to list, in this order
ExpectedKeys(endpoint) ==
    CASE endpoint = "bls.get_reward_balance" -> <<"address", "balance", "height", "signature">>
      [] endpoint = "bls.get_exit" -> <<"exit", "signature">>
      [] OTHER -> <<"liquidate", "signature">>

\* C25: a "200" reply of a responder lists exactly its claim fields and then
\* "signature", in ascending key order, and the reply key each of aggregateExit
\* and aggregateLiquidation passes sorts before "signature" (the assert of
\* aggregateExitOrLiquidate).
C25_RepliesSorted ==
    /\ (Replied /\ rs.reply[1] = "200") =>
        /\ Len(rs.reply) = 2
        /\ KeySeq(rs.reply[2]) = ExpectedKeys(rs.endpoint)
        /\ \A p \in 1..(Len(rs.reply[2]) - 1) :
                KeyLess(rs.reply[2][p].key, rs.reply[2][p + 1].key)
    /\ \A k \in Kinds \ {"reward"} : KeyLess(PubkeyKeyOf(k), "signature")

\* C25 witness: get_exit answered "200" for a removable key
C25_Witness ==
    /\ Replied /\ rs.endpoint = "bls.get_exit"
    /\ rs.reply[1] = "200"
    /\ rs.signed # {}

\* C26: for the claim of the call, on the network of the call, the responder
\* of the call's kind signs the very hash the entry point computed (same tag,
\* same fields, same order, the amount as 32 bytes big-endian), so its
\* signature verifies at the callback under the responder's key.
C26_ResponderHashIsValidatorHash ==
    Dispatching => \A j \in Peers :
        LET sigs == ResponderSignatures(j, EndpointOf(kind), core.nettype)
        IN  /\ sigs # {}
            /\ \A sg \in sigs :
                /\ sg.hash = result.signed_hash
                /\ verifyHash(sg, snodes[j].bls_pubkey, result.signed_hash)
                /\ SignatureVerifies(sg, snodes[j], result)
            /\ kind = "reward" =>
                    \A sg \in sigs : sg.hash =
                        keccak(<<buildTagHash("rewardTag", core.nettype), result.address,
                                 encode_integer_be32(result.amount)>>)

\* C26 witness: the signature the get_reward_balance responder of a peer makes
\* for the claim of a rewards call was verified and folded by the call
C26_Witness ==
    /\ Returned /\ kind = "reward"
    /\ \E j \in pushed :
            FieldOf(ReplyDict(j), "signature") \in
                ResponderSignatures(j, "bls.get_reward_balance", core.nettype)

\* C27 (as claimed): every completion that frees a slot notifies the condition
\* variable: whenever a completion lambda decrements the counter, the condition
\* under which it calls cv.notify_all holds, also when the counter stays above
\* zero.
C27_EveryCompletionNotifies ==
    [][active_connections' < active_connections => NotifyCondition(active_connections')]_vars

\* the handlers between their lock of the mutex and its release
InSection == {j \in Peers : req[j] \in {"locked", "added"}}

\* C28: the fold and the append are one critical section under one mutex: at
\* most one handler is inside it, and it is the holder of the mutex; whenever
\* the mutex is free, the signatures folded, the signatures in the aggregate
\* and the entries of the contributor list are equally many and come from the
\* same responses.
C28_FoldAndAppendAtomic ==
    /\ Cardinality(InSection) <= 1
    /\ InSection = (IF sig_mutex = 0 THEN {} ELSE {sig_mutex})
    /\ sig_mutex = 0 =>
        /\ folded = pushed
        /\ Cardinality(folded) = Len(result.signers_bls_pubkeys)
        /\ BagCardinality(aggSig) = Len(result.signers_bls_pubkeys)

\* C28 witness: a handler holds the mutex between its fold and its append
\* while the handler of the other peer, verified too, waits for the mutex
C28_Witness ==
    /\ N = 2
    /\ \E j, k \in Peers :
        /\ req[j] = "added" /\ sig_mutex = j
        /\ req[k] = "verified"
        /\ BagCardinality(aggSig) = Len(result.signers_bls_pubkeys) + 1

\* C29: of two calls running at once on a node, each works on its own
\* counter, lock and accumulator: its counter counts its own requests not yet
\* completed, its barrier is passed only when its own requests are done and
\* never waits at zero, its mutex is held by one of its own handlers, and its
\* returned aggregate and contributor list are those of the responses to its
\* own requests, signed over its own claim.
C29_CallsShareNothing ==
    /\ active_connections = Cardinality(InFlight) + (IF pc = "request" THEN 1 ELSE 0)
    /\ pc \in {"joined", "returned"} => \A j \in Peers : sent[j] = 1 /\ req[j] = "done"
    /\ pc = "blocked" => active_connections > 0
    /\ sig_mutex # 0 => req[sig_mutex] \in {"locked", "added"}
    /\ Returned =>
        /\ result.signature = PartialSum(result.signers_bls_pubkeys, ExpectedHash)
        /\ AggPub(result.signers_bls_pubkeys) = KeysOf(pushed)
        /\ \A j \in pushed : SignedByPeer(ReplyDict(j), j)
    /\ other.pc \in {"joined", "returned"} =>
        \A j \in Peers : other.sent[j] = 1 /\ other.req[j] = "done"
    /\ other.pc = "blocked" => other.active_connections > 0

\* C29 witness: a call returned with a contributor while the other call, of
\* another kind, was still blocked on its own request in flight
C29_Witness ==
    /\ Returned /\ pushed # {}
    /\ kind # other.kind
    /\ other.pc = "blocked"
    /\ \E j \in Peers : other.req[j] = "inflight"

\* the transport delivered a two-part "200" reply to the callback of snode j
PassedStatus(j) == resp[j].success /\ Len(resp[j].data) = 2 /\ resp[j].data[1] = "200"

\* C30: a response is processed in the order status, echoed fields, signature,
\* fold.  It is rejected at the status step exactly when the transport failed
\* or the reply is not a two-part "200"; its signature is verified (it is
\* rejected for its signature, or accepted) only if it passed the status step
\* and echoes the claim; it is folded and appended only if it was accepted, and
\* accepted only if its signature verifies; rejected at any step, it is
\* neither folded nor appended.
C30_StepsInOrder ==
    \A j \in Peers : called[j] > 0 =>
        /\ Outcome(j).stage = "status" <=> ~PassedStatus(j)
        /\ Outcome(j).stage \in {"signature", "fold"} =>
                PassedStatus(j) /\ EchoesClaim(ReplyDict(j))
        /\ Outcome(j).accept <=> Outcome(j).stage = "fold"
        /\ Outcome(j).accept => SignedByPeer(ReplyDict(j), j)
        /\ (j \in folded \/ j \in pushed \/ req[j] \in {"verified", "locked", "added"}) =>
                Outcome(j).accept
        /\ j \in pushed => j \in folded

\* C30 witness: a reply that echoes another key under a signature that does
\* not verify was rejected at the field step, and the other peer's reply went
\* through every step and was folded
C30_Witness ==
    /\ Returned /\ kind = "exit"
    /\ HasReply(1) /\ EchoDiffers(ReplyDict(1)) /\ ~SignedByPeer(ReplyDict(1), 1)
    /\ Outcome(1).stage = "field"
    /\ pushed = {2}

\* C31: within one round a peer whose request failed or whose response was
\* rejected was sent one request and is never sent another, its callback ran
\* once, and neither its entry nor its key is in the contributor list.
C31_NoRetryNoContribution ==
    \A j \in Peers : Rejected(j) =>
        /\ sent[j] = 1 /\ called[j] = 1
        /\ j \notin pushed
        /\ snodes[j].bls_pubkey \notin Range(result.signers_bls_pubkeys)

\* C31 witness: the call returned after the first peer's request failed and
\* the second peer's reply was rejected for its signature; the list is empty
C31_Witness ==
    /\ Returned
    /\ ~resp[1].success /\ Rejected(1)
    /\ PassedStatus(2) /\ Rejected(2) /\ Outcome(2).stage = "signature"
    /\ sent = <<1, 1>>
    /\ result.signers_bls_pubkeys = <<>>

\* what a responder request leaves alone: the ledger and eligibility state of
\* the node and everything an aggregation call of the node holds
NodeState == <<inputs, other, hist, pc, i_loop, active_connections, req, resp, sig_mutex,
               aggSig, result>>

\* C32 (as claimed): handling a responder request writes no node state, and
\* the reply is a function of the request (endpoint and data) and of the
\* ledger and eligibility state at that time: whatever else the handler found
\* in its memory, the reply would have been the same.
C32_ReplyDependsOnRequestOnly ==
    /\ [][NodeState' = NodeState]_vars
    /\ [](Replied => \A u \in Subjects :
                rs.reply = Respond(rs.endpoint, core, rs.data, u))

\* the key under which the reply of an endpoint echoes the subject
SubjectKeyOf(endpoint) ==
    IF endpoint = "bls.get_reward_balance" THEN "address" ELSE PubkeyKeyOf(KindOf(endpoint))

\* C33 (as claimed): a "200" reply echoes the claim its signature covers, and
\* that claim is the one of the request: the echoed address or key is the
\* subject the request's data part decodes to, the hash passed to the signing
\* primitive is the hash of that subject (for rewards with the ledger amount of
\* that subject, which is the echoed balance), and the signature of the reply
\* is the node's signature over that hash.
C33_ReplyEchoesSignedClaim ==
    (Replied /\ rs.reply[1] = "200") =>
        \E s \in Subjects :
            /\ Requests(rs.data, s)
            /\ FieldOf(rs.reply[2], SubjectKeyOf(rs.endpoint)) = view_guts(s)
            /\ rs.endpoint = "bls.get_reward_balance" =>
                    FieldOf(rs.reply[2], "balance") = core.db[s].amount
            /\ rs.signed = {ClaimHashOf(rs.endpoint, core, s)}
            /\ FieldOf(rs.reply[2], "signature") =
                    signHash(core.bls_pubkey, ClaimHashOf(rs.endpoint, core, s))

\* the BLS keys of the snapshot of reachable peers
SnapshotKeys == {snodes[j].bls_pubkey : j \in Peers}

\* C34: at every moment each key of the contributor list is the BLS key the
\* snapshot records for a peer whose callback appended it after that peer
\* answered, one entry per such peer, whatever the replies contain; the list
\* never has more entries than the snapshot has peers.
C34_ContributorsFromSnapshot ==
    /\ \A p \in 1..Len(result.signers_bls_pubkeys) :
            /\ result.signers_bls_pubkeys[p] \in SnapshotKeys
            /\ \E j \in pushed : HasReply(j) /\ result.signers_bls_pubkeys[p] = snodes[j].bls_pubkey
    /\ Len(result.signers_bls_pubkeys) = Cardinality(pushed)
    /\ Len(result.signers_bls_pubkeys) <= N

\* C34 witness: both peers of the snapshot contributed to a liquidation, the
\* second before the first; the list holds their keys in that order and not
\* the key their replies echo
C34_Witness ==
    /\ Returned /\ kind = "liquidate"
    /\ result.signers_bls_pubkeys = <<snodes[2].bls_pubkey, snodes[1].bls_pubkey>>
    /\ \A j \in Peers : FieldOf(ReplyDict(j), "liquidate")[1] \notin SnapshotKeys

\* C35: every run of a responder sends exactly one reply, the one the requester
\* gets: "400" on the path where the request could not be decoded, the refusal
\* ("400" for a zero balance, "403" otherwise) without signature on the path
\* where the precondition fails for the decoded subject, and "200" with the
\* signed map on the path where it holds; before the handler has run nothing
\* was sent.
C35_ExactlyOneReply ==
    LET x == extract_1part_msg(rs.data, rs.uninit)
    IN  /\ rs.phase = "handling" => rs.replies = <<>>
        /\ Replied =>
            /\ Len(rs.replies) = 1
            /\ rs.replies[1] = rs.reply
            /\ ~x.ok => rs.reply = BadRequest
            /\ (x.ok /\ ~PreconditionHolds(rs.endpoint, core, x.val)) =>
                    rs.reply[1] \in {"400", "403"} /\ ~CarriesSignature(rs.reply)
            /\ (x.ok /\ PreconditionHolds(rs.endpoint, core, x.val)) =>
                    CarriesSignature(rs.reply)

\* C35 witness: the second request a node served had two data parts and was
\* answered with one "400"
C35_Witness ==
    /\ Replied /\ rs.served = 2
    /\ Len(rs.data) = 2
    /\ rs.replies = <<BadRequest>>

\* requests handed to omq.request, and completion lambdas that have finished
Dispatched == {j \in Peers : sent[j] > 0}
Finished == {j \in Peers : req[j] = "done"}

\* C36: in nodesRequest active_connections equals the requests dispatched
\* (the one whose slot is taken and whose omq.request is being made included)
\* minus the completion lambdas that have finished; where a lambda is about to
\* decrement, the counter is positive (the assertion holds); and the counter
\* only changes by the increment of the loop before a dispatch and by the
\* decrement at the end of a lambda whose callback has returned, each a single
\* step under connection_mutex.
C36_CounterCountsOpenRequests ==
    /\ [](/\ active_connections =
                Cardinality(Dispatched) + (IF pc = "request" THEN 1 ELSE 0)
                    - Cardinality(Finished)
          /\ \A j \in Peers : req[j] = "cbdone" => active_connections > 0)
    /\ [][active_connections' # active_connections =>
            \/ /\ active_connections' = active_connections + 1
               /\ pc = "loop" /\ pc' = "request" /\ sent' = sent
            \/ /\ active_connections' = active_connections - 1
               /\ \E j \in Peers : req[j] = "cbdone" /\ req' = [req EXCEPT ![j] = "done"]]_vars

\* C36 witness: the slot of the fifth request is taken while two lambdas have
\* finished and one is about to decrement; the counter stands at three
C36_Witness ==
    /\ pc = "request" /\ i_loop = 5
    /\ Cardinality(Finished) = 2
    /\ \E j \in Peers : req[j] = "cbdone"
    /\ active_connections = 3

====
